---- MODULE Spec2Model ----
(***************************************************************************)
(* A model of express-git-puller (src/src/Puller.ts): the Puller class     *)
(* that validates a GitHub webhook request, answers it, and runs the       *)
(* configured command categories.                                          *)
(*                                                                         *)
(* JavaScript strings the code inspects character by character (method,    *)
(* headers, refs, names, messages, command templates) are sequences of     *)
(* one-character strings.  The value undefined is the one-element          *)
(* sequence Undefined, which is no string of the alphabet.  Category names *)
(* and response texts are only compared as wholes and are TLA+ strings.    *)
(***************************************************************************)
EXTENDS Integers, Sequences, FiniteSets, TLC

----------------------------------------------------------------------------
(* Bounds of the model *)

\* number of requests the middleware can be handling at once: Spec and SpecRun
\* deliver one request, SpecPair delivers MaxRequests of them, whose runs interleave
MaxRequests == 2

\* number of hex digits of the modelled HMAC digest (40 for the real SHA-1)
HexLen == 2

\* number of pieces (tokens, dollar signs, letters) a command template of SpecVars is made of
MaxPieces == 3

----------------------------------------------------------------------------
(* JavaScript values and string primitives *)

Undefined == <<"undefined">>

IsString(v) == v # Undefined

\* !v for a value that is a string or undefined
Falsy(v) == v = Undefined \/ v = <<>>

UpperCase == <<"A","B","C","D","E","F","G","H","I","J","K","L","M",
               "N","O","P","Q","R","S","T","U","V","W","X","Y","Z">>

LowerCase == <<"a","b","c","d","e","f","g","h","i","j","k","l","m",
               "n","o","p","q","r","s","t","u","v","w","x","y","z">>

toLowerChar(c) ==
    IF \E k \in 1..Len(UpperCase) : UpperCase[k] = c
    THEN LowerCase[CHOOSE k \in 1..Len(UpperCase) : UpperCase[k] = c]
    ELSE c

toLowerCase(s) == [k \in 1..Len(s) |-> toLowerChar(s[k])]

startsWith(s, p) == Len(s) >= Len(p) /\ SubSeq(s, 1, Len(p)) = p

\* s has an occurrence of p that begins at position k
MatchAt(s, p, k) == k >= 1 /\ k + Len(p) - 1 <= Len(s) /\ SubSeq(s, k, k + Len(p) - 1) = p

IsSpace(c) == c = " "

RECURSIVE trimStart(_)
trimStart(s) == IF s # <<>> /\ IsSpace(Head(s)) THEN trimStart(Tail(s)) ELSE s

RECURSIVE trimEnd(_)
trimEnd(s) == IF s # <<>> /\ IsSpace(s[Len(s)]) THEN trimEnd(SubSeq(s, 1, Len(s) - 1)) ELSE s

trim(s) == trimEnd(trimStart(s))

\* String.prototype.replace(pattern, "") with a literal, non-global pattern:
\* the first occurrence is removed, wherever it is
replaceFirst(s, p) ==
    IF \E k \in 1..Len(s) : MatchAt(s, p, k)
    THEN LET k == CHOOSE j \in 1..Len(s) : MatchAt(s, p, j) /\ \A h \in 1..(j - 1) : ~MatchAt(s, p, h)
         IN  SubSeq(s, 1, k - 1) \o SubSeq(s, k + Len(p), Len(s))
    ELSE s

\* RegExp.prototype.test for a pattern that is a literal with the i flag
\* (/\[bot\]/i, /\[nopull\]/i): a case-insensitive substring search
RegExpTest(pattern, s) ==
    \E k \in 1..Len(s) : MatchAt(toLowerCase(s), toLowerCase(pattern), k)

\* Array.prototype.includes
includes(arr, v) == \E k \in 1..Len(arr) : arr[k] = v

----------------------------------------------------------------------------
(* String literals of the source *)

STAR          == <<"*">>
POST_LOWER    == <<"p","o","s","t">>
HOOKSHOT      == <<"G","i","t","H","u","b","-","H","o","o","k","s","h","o","t","/">>
REFS_TAGS     == <<"r","e","f","s","/","t","a","g","s","/">>
REFS_HEADS    == <<"r","e","f","s","/","h","e","a","d","s","/">>
SHA1_PREFIX   == <<"s","h","a","1","=">>
BOT_REGEX     == <<"[","b","o","t","]">>
NOPULL_REGEX  == <<"[","n","o","p","u","l","l","]">>
TAG == "[ExpressGitPuller] "

----------------------------------------------------------------------------
(* Options: DEFAULT_OPTIONS and the constructor's merge *)

\* a JavaScript object as an ordered list of [name, value] entries (insertion order)
Keys(obj) == {obj[k].name : k \in 1..Len(obj)}

hasOwnProperty(obj, name) == name \in Keys(obj)

Get(obj, name) == obj[CHOOSE k \in 1..Len(obj) : obj[k].name = name].value

RECURSIVE SpreadInto(_, _)
\* { ...target, ...source }: a key of source that target has keeps its place and
\* takes the new value, a new key is appended
SpreadInto(target, source) ==
    IF source = <<>> THEN target
    ELSE LET e == Head(source)
             t == IF hasOwnProperty(target, e.name)
                  THEN [k \in 1..Len(target) |-> IF target[k].name = e.name THEN e ELSE target[k]]
                  ELSE Append(target, e)
         IN  SpreadInto(t, Tail(source))

Spread(defaults, user) == SpreadInto(defaults, user)

Entry(n, v) == [name |-> n, value |-> v]

Str_ExampleApp == <<"E","x","a","m","p","l","e","A","p","p">>
Str_origin     == <<"o","r","i","g","i","n">>
Str_master     == <<"m","a","s","t","e","r">>
Str_main       == <<"m","a","i","n">>
Str_push       == <<"p","u","s","h">>
Str_appName    == <<"a","p","p","N","a","m","e">>
Str_remote     == <<"r","e","m","o","t","e">>
Str_branch     == <<"b","r","a","n","c","h">>

Cmd_fetch   == <<"g","i","t"," ","f","e","t","c","h"," ","$","r","e","m","o","t","e","$"," ","$","b","r","a","n","c","h","$">>
Cmd_pull    == <<"g","i","t"," ","p","u","l","l"," ","$","r","e","m","o","t","e","$"," ","$","b","r","a","n","c","h","$">>
Cmd_install == <<"n","p","m"," ","i","n","s","t","a","l","l">>
Cmd_restart == <<"p","m","2"," ","r","e","s","t","a","r","t"," ","$","a","p","p","N","a","m","e","$">>

DEFAULT_OPTIONS == <<
    Entry("events", <<Str_push>>),
    Entry("secret", <<>>),
    Entry("token", <<>>),
    Entry("vars", <<Entry(Str_appName, Str_ExampleApp),
                    Entry(Str_remote, Str_origin),
                    Entry(Str_branch, Str_master)>>),
    Entry("pusherIgnoreRegex", BOT_REGEX),
    Entry("commitIgnoreRegex", NOPULL_REGEX),
    Entry("branches", <<Str_main, Str_master>>),
    Entry("onlyTags", FALSE),
    Entry("commandOrder", <<"pre", "git", "install", "post">>),
    Entry("commands", <<Entry("pre", <<>>),
                        Entry("git", <<Cmd_fetch, Cmd_pull>>),
                        Entry("install", <<Cmd_install>>),
                        Entry("post", <<Cmd_restart>>)>>),
    Entry("delays", <<Entry("pre", 0), Entry("git", 0), Entry("install", 0), Entry("post", 0)>>),
    Entry("dryCommands", FALSE),
    Entry("logCommands", FALSE) >>

\* options.<name> of the options argument, undefined (here the empty object) when not supplied
SubMap(user, name) == IF hasOwnProperty(user, name) THEN Get(user, name) ELSE <<>>

\* only the first statement of the constructor: a map of the argument replaces
\* the default map as a whole
Puller_Shallow(user) == Spread(DEFAULT_OPTIONS, user)

\* new Puller(options): this._options
Puller(user) ==
    LET merged == Spread(DEFAULT_OPTIONS, user)
        withVars == Spread(merged, <<Entry("vars", Spread(Get(DEFAULT_OPTIONS, "vars"), SubMap(user, "vars")))>>)
        withCmds == Spread(withVars, <<Entry("commands", Spread(Get(DEFAULT_OPTIONS, "commands"), SubMap(user, "commands")))>>)
    IN  Spread(withCmds, <<Entry("delays", Spread(Get(DEFAULT_OPTIONS, "delays"), SubMap(user, "delays")))>>)

\* this._options.<name>; a key that was never set reads as undefined
Opt(o, name) == IF hasOwnProperty(o, name) THEN Get(o, name) ELSE Undefined

----------------------------------------------------------------------------
(* Observable effects, in the order the code performs them *)

NoErr == [kind |-> "none", at |-> 0]

Err(kind, at) == [kind |-> kind, at |-> at]

\* one effect: op is the primitive called, s a name or text, c a string value,
\* n and m numbers, e an error; w is the status of the child processes of the
\* run at the moment of the effect (filled in by the steps of the run)
Eff(op, s, c, n, m, e) == [op |-> op, s |-> s, c |-> c, n |-> n, m |-> m, e |-> e, w |-> <<>>]

\* the effects of one step of a run, performed while the child processes are as in w
At(w, effects) == [k \in 1..Len(effects) |-> [effects[k] EXCEPT !.w = w]]

\* res.status(n).send(text)
Send(n, text) == Eff("send", text, <<>>, n, 0, NoErr)

\* this.emit(name, req, res, error)
Emit(name, e) == Eff("emit", name, <<>>, 0, 0, e)

\* entry into one of the check methods of the class
Call(name) == Eff("call", name, <<>>, 0, 0, NoErr)

\* crypto.timingSafeEqual(a, b), with the byte lengths of its arguments
TimingSafeEqualCall(a, b) == Eff("timingSafeEqual", "", <<>>, Len(a), Len(b), NoErr)

ConsoleLog(text, c) == Eff("log", text, c, 0, 0, NoErr)

ConsoleWarn(text, c) == Eff("warn", text, c, 0, 0, NoErr)

\* setTimeout(resolve, time), for the category at position k of commandOrder
SetTimeout(time, k) == Eff("setTimeout", "", <<>>, time, k, NoErr)

\* exec(cmd) for a command of the category at position k of commandOrder: child
\* process number p is spawned
Exec(cmd, p, k) == Eff("exec", "", cmd, p, k, NoErr)

\* exec(cmd) throws synchronously
ExecThrow(cmd, p, k) == Eff("execThrow", "", cmd, p, k, Err("spawn", p))

Ops(log, op) == {k \in 1..Len(log) : log[k].op = op}

----------------------------------------------------------------------------
(* The request: req.method, req.headers, req.query.token and req.body *)

\* GithubUser, GithubCommit and the commits array; defined is FALSE for undefined
NoUser == [defined |-> FALSE, name |-> Undefined]

User(name) == [defined |-> TRUE, name |-> name]

NoCommit == [defined |-> FALSE, message |-> Undefined]

Commit(message) == [defined |-> TRUE, message |-> message]

NoCommits == [defined |-> FALSE, items |-> <<>>]

Commits(items) == [defined |-> TRUE, items |-> items]

\* a body that is no object: undefined, "" or []
NonObject(kind) ==
    [kind |-> kind, ref |-> Undefined, base_ref |-> Undefined,
     pusher |-> NoUser, head_commit |-> NoCommit, commits |-> NoCommits]

Body(ref, base_ref, pusher, head_commit, commits) ==
    [kind |-> "object", ref |-> ref, base_ref |-> base_ref,
     pusher |-> pusher, head_commit |-> head_commit, commits |-> commits]

Request(method, ua, sig, event, token, body) ==
    [method |-> method, userAgent |-> ua, signature |-> sig, event |-> event,
     token |-> token, body |-> body]

----------------------------------------------------------------------------
(* VALIDATIONS and OPTION CHECKS *)

\* !req.body || req.body.length <= 0
BodyMissing(body) == body.kind \in {"undefined", "emptyString", "emptyArray"}

\* validateRequest with the event header looked at before the signature header
validateRequestSends_EventFirst(r) ==
    IF toLowerCase(r.method) # POST_LOWER THEN <<Send(400, "invalid request method")>>
    ELSE IF Falsy(r.userAgent) THEN <<Send(400, "missing user agent header")>>
    ELSE IF ~startsWith(r.userAgent, HOOKSHOT) THEN <<Send(400, "invalid user agent")>>
    ELSE IF Falsy(r.event) THEN <<Send(400, "missing event")>>
    ELSE IF Falsy(r.signature) THEN <<Send(400, "missing request signature")>>
    ELSE IF BodyMissing(r.body) THEN <<Send(400, "missing body")>>
    ELSE <<>>

\* validateRequest: the response it sends; it returns true iff it sends none
validateRequestSends(r) ==
    IF toLowerCase(r.method) # POST_LOWER THEN <<Send(400, "invalid request method")>>
    ELSE IF Falsy(r.userAgent) THEN <<Send(400, "missing user agent header")>>
    ELSE IF ~startsWith(r.userAgent, HOOKSHOT) THEN <<Send(400, "invalid user agent")>>
    ELSE IF Falsy(r.signature) THEN <<Send(400, "missing request signature")>>
    ELSE IF Falsy(r.event) THEN <<Send(400, "missing event")>>
    ELSE IF BodyMissing(r.body) THEN <<Send(400, "missing body")>>
    ELSE <<>>

validateRequest(r) == validateRequestSends(r) = <<>>

\* only the first configured event is looked at
shouldHandleEvent_FirstOnly(o, r) ==
    IF Len(Opt(o, "events")) <= 0 THEN FALSE
    ELSE IF Opt(o, "events")[1] = STAR THEN TRUE
    ELSE Opt(o, "events")[1] = r.event

shouldHandleEvent(o, r) ==
    IF Len(Opt(o, "events")) <= 0 THEN FALSE
    ELSE IF Opt(o, "events")[1] = STAR THEN TRUE
    ELSE includes(Opt(o, "events"), r.event)

\* body.ref.startsWith(...) on an undefined ref is a TypeError
shouldHandleRefThrows(o, r) ==
    /\ Len(Opt(o, "branches")) > 0
    /\ Opt(o, "branches")[1] # STAR
    /\ Opt(o, "onlyTags")
    /\ r.body.ref = Undefined

shouldHandleRef(o, r) ==
    IF Len(Opt(o, "branches")) <= 0 THEN FALSE
    ELSE IF Opt(o, "branches")[1] = STAR THEN TRUE
    ELSE IF Opt(o, "onlyTags") /\ ~startsWith(r.body.ref, REFS_TAGS) THEN FALSE
    ELSE IF Falsy(r.body.ref) /\ Falsy(r.body.base_ref) THEN FALSE
    ELSE LET from == IF Falsy(r.body.base_ref) THEN r.body.ref ELSE r.body.base_ref
             branch == replaceFirst(from, REFS_HEADS)
         IN  includes(Opt(o, "branches"), trim(branch))

\* a notification without a pusher is ignored when a pattern is configured
shouldHandlePusher_RejectAnonymous(o, r) ==
    IF Opt(o, "pusherIgnoreRegex") = Undefined THEN TRUE
    ELSE IF ~r.body.pusher.defined THEN FALSE
    ELSE IF ~Falsy(r.body.pusher.name) /\ RegExpTest(Opt(o, "pusherIgnoreRegex"), r.body.pusher.name) THEN FALSE
    ELSE TRUE

shouldHandlePusher(o, r) ==
    IF Opt(o, "pusherIgnoreRegex") = Undefined THEN TRUE
    ELSE IF ~r.body.pusher.defined THEN TRUE
    ELSE IF ~Falsy(r.body.pusher.name) /\ RegExpTest(Opt(o, "pusherIgnoreRegex"), r.body.pusher.name) THEN FALSE
    ELSE TRUE

\* RegExp.prototype.test converts its argument to a string
StringOf(v) == IF v = Undefined THEN <<"u","n","d","e","f","i","n","e","d">> ELSE v

\* the first element of commits is preferred to head_commit
shouldHandleCommit_CommitsFirst(o, r) ==
    IF Opt(o, "commitIgnoreRegex") = Undefined THEN TRUE
    ELSE IF ~r.body.head_commit.defined /\ ~r.body.commits.defined THEN TRUE
    ELSE LET commit == IF r.body.commits.items # <<>> THEN r.body.commits.items[1]
                       ELSE r.body.head_commit
         IN  IF commit.defined /\ RegExpTest(Opt(o, "commitIgnoreRegex"), StringOf(commit.message))
             THEN FALSE
             ELSE TRUE

shouldHandleCommit(o, r) ==
    IF Opt(o, "commitIgnoreRegex") = Undefined THEN TRUE
    ELSE IF ~r.body.head_commit.defined /\ ~r.body.commits.defined THEN TRUE
    ELSE LET commit == IF r.body.head_commit.defined THEN r.body.head_commit
                       ELSE IF r.body.commits.items # <<>> THEN r.body.commits.items[1]
                       ELSE NoCommit
         IN  IF commit.defined /\ RegExpTest(Opt(o, "commitIgnoreRegex"), StringOf(commit.message))
             THEN FALSE
             ELSE TRUE

\* validateToken comparing without regard to case
validateToken_IgnoreCase(o, r) ==
    IF Falsy(Opt(o, "token")) THEN TRUE
    ELSE IF Falsy(r.token) THEN FALSE
    ELSE toLowerCase(r.token) = toLowerCase(Opt(o, "token"))

validateToken(o, r) ==
    IF Falsy(Opt(o, "token")) THEN TRUE
    ELSE IF Falsy(r.token) THEN FALSE
    ELSE r.token = Opt(o, "token")

----------------------------------------------------------------------------
(* The signature: JSON.stringify(req.body), the HMAC and the comparison *)

Quote == <<"\"">>

Quoted(str) == Quote \o str \o Quote

Member(key, json) == Quoted(key) \o <<":">> \o json

RECURSIVE Join(_)
Join(parts) ==
    IF parts = <<>> THEN <<>>
    ELSE IF Len(parts) = 1 THEN parts[1]
    ELSE parts[1] \o <<",">> \o Join(Tail(parts))

Object(members) == <<"{">> \o Join(members) \o <<"}">>

K_ref         == <<"r","e","f">>
K_base_ref    == <<"b","a","s","e","_","r","e","f">>
K_pusher      == <<"p","u","s","h","e","r">>
K_name        == <<"n","a","m","e">>
K_head_commit == <<"h","e","a","d","_","c","o","m","m","i","t">>
K_commits     == <<"c","o","m","m","i","t","s">>
K_message     == <<"m","e","s","s","a","g","e">>

\* a member whose value is undefined is left out by JSON.stringify
StringMember(key, v) == IF v = Undefined THEN <<>> ELSE <<Member(key, Quoted(v))>>

CommitJson(c) == Object(StringMember(K_message, c.message))

\* JSON.stringify(req.body) of a body that is an object
stringify(body) ==
    Object(   StringMember(K_ref, body.ref)
           \o StringMember(K_base_ref, body.base_ref)
           \o (IF body.pusher.defined
               THEN <<Member(K_pusher, Object(StringMember(K_name, body.pusher.name)))>>
               ELSE <<>>)
           \o (IF body.head_commit.defined
               THEN <<Member(K_head_commit, CommitJson(body.head_commit))>>
               ELSE <<>>)
           \o (IF body.commits.defined
               THEN <<Member(K_commits,
                             <<"[">> \o Join([k \in 1..Len(body.commits.items) |->
                                                CommitJson(body.commits.items[k])]) \o <<"]">>)>>
               ELSE <<>>))

Digits == <<"0","1","2","3","4","5","6","7","8","9">>

HexDigits == Digits \o <<"a","b","c","d","e","f">>

Alphabet == LowerCase \o UpperCase \o Digits
            \o <<" ","!","\"","$","*","-","/",":","=","[","]","_","{","}",",",".">>

\* the code of each character of the alphabet: its position
CharCodes == [c \in {Alphabet[k] : k \in 1..Len(Alphabet)} |->
                CHOOSE k \in 1..Len(Alphabet) : Alphabet[k] = c]

CharCode(c) == IF c \in DOMAIN CharCodes THEN CharCodes[c] ELSE 0

RECURSIVE Pow(_, _)
Pow(b, n) == IF n = 0 THEN 1 ELSE b * Pow(b, n - 1)

Modulus == Pow(16, HexLen)

RECURSIVE HashRange(_, _, _)
\* <<hash of str[lo..hi], 31^(hi - lo + 1)>>, both modulo Modulus; the range is
\* halved so that long strings need no deep recursion
HashRange(str, lo, hi) ==
    IF lo > hi THEN <<0, 1>>
    ELSE IF lo = hi THEN <<(CharCode(str[lo]) + 7) % Modulus, 31 % Modulus>>
    ELSE LET mid == (lo + hi) \div 2
             left == HashRange(str, lo, mid)
             right == HashRange(str, mid + 1, hi)
         IN  <<(left[1] * right[2] + right[1]) % Modulus, (left[2] * right[2]) % Modulus>>

\* the hash state after the characters of str, starting from state h:
\* h := h * 31 + code + 7 for each character
Absorb(h, str) ==
    LET r == HashRange(str, 1, Len(str))
    IN  (h * r[2] + r[1]) % Modulus

RECURSIVE ToHex(_, _)
\* the n low hex digits of h, most significant first
ToHex(h, n) == IF n = 0 THEN <<>> ELSE Append(ToHex(h \div 16, n - 1), HexDigits[(h % 16) + 1])

\* crypto.createHmac('sha1', key).update(message).digest('hex'): a keyed digest of
\* fixed length; the key is absorbed before and after the message
HmacHex(key, message) == ToHex(Absorb(Absorb(Absorb(0, key), message), key), HexLen)

\* "sha1=" + hmac.update(bodyStr).digest('hex')
Digest(secret, body) == SHA1_PREFIX \o HmacHex(secret, stringify(body))

\* crypto.timingSafeEqual throws a RangeError on inputs of different byte length
timingSafeEqualThrows(a, b) == Len(a) # Len(b)

timingSafeEqual(a, b) == a = b

\* the guard in front of the comparator left out
LengthsDiffer_Unguarded(digest, checksum) == FALSE

\* checksum.length !== digest.length, the guard in front of the comparator
LengthsDiffer(digest, checksum) == Len(checksum) # Len(digest)

\* validateSignature reaches the comparison of digest and checksum
SignatureCompared(o, r) == ~Falsy(Opt(o, "secret")) /\ ~Falsy(r.signature)

\* the comparator called on every signature that is compared
validateSignatureCalls_AnyLength(o, r) ==
    IF ~SignatureCompared(o, r) THEN <<>>
    ELSE <<TimingSafeEqualCall(Digest(Opt(o, "secret"), r.body), r.signature)>>

\* the calls of crypto.timingSafeEqual that validateSignature makes: none when the
\* first disjunct of the condition already holds
validateSignatureCalls(o, r) ==
    IF ~SignatureCompared(o, r) THEN <<>>
    ELSE LET digest == Digest(Opt(o, "secret"), r.body)
         IN  IF LengthsDiffer(digest, r.signature) THEN <<>>
             ELSE <<TimingSafeEqualCall(digest, r.signature)>>

validateSignature(o, r) ==
    IF Falsy(Opt(o, "secret")) THEN TRUE
    ELSE IF Falsy(r.signature) THEN FALSE
    ELSE LET digest == Digest(Opt(o, "secret"), r.body)
             checksum == r.signature
         IN  IF LengthsDiffer(digest, checksum) \/ ~timingSafeEqual(digest, checksum)
             THEN FALSE
             ELSE TRUE

----------------------------------------------------------------------------
(* UTIL: replaceVars *)

RECURSIVE Expand(_, _)
\* the replacement string of String.prototype.replace: $$ inserts a dollar sign and
\* $& the matched text; a dollar sign before any other character is literal
Expand(value, matched) ==
    IF value = <<>> THEN <<>>
    ELSE IF Len(value) >= 2 /\ value[1] = "$" /\ value[2] = "$"
         THEN <<"$">> \o Expand(SubSeq(value, 3, Len(value)), matched)
    ELSE IF Len(value) >= 2 /\ value[1] = "$" /\ value[2] = "&"
         THEN matched \o Expand(SubSeq(value, 3, Len(value)), matched)
    ELSE <<Head(value)>> \o Expand(Tail(value), matched)

RECURSIVE replaceAll_OpenToken(_, _, _)
\* the pattern without its closing dollar sign
replaceAll_OpenToken(str, pattern, value) ==
    IF str = <<>> THEN <<>>
    ELSE IF MatchAt(str, SubSeq(pattern, 1, Len(pattern) - 1), 1)
         THEN Expand(value, SubSeq(pattern, 1, Len(pattern) - 1))
              \o replaceAll_OpenToken(SubSeq(str, Len(pattern), Len(str)), pattern, value)
    ELSE <<Head(str)>> \o replaceAll_OpenToken(Tail(str), pattern, value)

RECURSIVE replaceAll(_, _, _)
\* str.replace(new RegExp(pattern, "g"), value) for a literal pattern: the
\* non-overlapping occurrences are replaced, scanning from the left
replaceAll(str, pattern, value) ==
    IF str = <<>> THEN <<>>
    ELSE IF MatchAt(str, pattern, 1)
         THEN Expand(value, pattern) \o replaceAll(SubSeq(str, Len(pattern) + 1, Len(str)), pattern, value)
    ELSE <<Head(str)>> \o replaceAll(Tail(str), pattern, value)

RECURSIVE replaceVarsFrom_LastFirst(_, _)
\* the variables taken from the last key to the first
replaceVarsFrom_LastFirst(vars, str) ==
    IF vars = <<>> THEN str
    ELSE replaceAll(replaceVarsFrom_LastFirst(Tail(vars), str),
                    <<"$">> \o Head(vars).name \o <<"$">>, Head(vars).value)

RECURSIVE replaceVarsFrom(_, _)
\* the rest of the for..in loop, over the entries vars that are still to come
replaceVarsFrom(vars, str) ==
    IF vars = <<>> THEN str
    ELSE replaceVarsFrom(Tail(vars),
                         replaceAll(str, <<"$">> \o Head(vars).name \o <<"$">>, Head(vars).value))

\* for (let v in this._options.vars) str = str.replace(/\$v\$/g, vars[v])
replaceVars(o, str) == replaceVarsFrom(Opt(o, "vars"), str)

----------------------------------------------------------------------------
(* Listeners and emit (EventEmitter) *)

\* what is registered for an event: nothing, a listener that returns, or one that throws
ListenerKinds == {"none", "ok", "throws"}

\* this.emit(name, ...) throws: a listener throws, or the event is "error" and
\* nothing listens for it
emitThrows(ls, name) == ls[name] = "throws" \/ (name = "error" /\ ls[name] = "none")

\* the error that emit throws: the error emitted when nobody listens, else the listener's
emitError(ls, name, e) == IF ls[name] = "throws" THEN Err("listener", 0) ELSE e

----------------------------------------------------------------------------
(* REQUEST STUFF: handleRequest *)

PreconditionTrue  == <<"function returning true">>
PreconditionFalse == <<"function returning false">>

Returned(log, ret, e) == [log |-> log, ret |-> ret, e |-> e]

\* the authentication checks placed before the relevance checks
CheckOrder_AuthFirst == <<"validateToken", "validateSignature", "shouldHandleEvent",
                          "shouldHandleRef", "shouldHandlePusher", "shouldHandleCommit">>

\* the precondition reached without the signature check
CheckOrder_NoSignature == <<"shouldHandleEvent", "shouldHandleRef", "shouldHandlePusher",
                            "shouldHandleCommit", "validateToken">>

\* the checks of handleRequest after validateRequest, in the order of its if statements
CheckOrder == <<"shouldHandleEvent", "shouldHandleRef", "shouldHandlePusher",
                "shouldHandleCommit", "validateToken", "validateSignature">>

\* one if statement of handleRequest: whether the check throws or passes, the
\* calls it makes, and what is done when it returns false
Check(o, r, name) ==
    CASE name = "shouldHandleEvent" ->
            [throws |-> FALSE, e |-> NoErr, ok |-> shouldHandleEvent(o, r), calls |-> <<>>,
             fail |-> <<Send(200, "")>>]
      [] name = "shouldHandleRef" ->
            [throws |-> shouldHandleRefThrows(o, r), e |-> Err("TypeError", 0),
             ok |-> shouldHandleRef(o, r), calls |-> <<>>, fail |-> <<Send(200, "")>>]
      [] name = "shouldHandlePusher" ->
            [throws |-> FALSE, e |-> NoErr, ok |-> shouldHandlePusher(o, r), calls |-> <<>>,
             fail |-> <<Send(200, "")>>]
      [] name = "shouldHandleCommit" ->
            [throws |-> FALSE, e |-> NoErr, ok |-> shouldHandleCommit(o, r), calls |-> <<>>,
             fail |-> <<Send(200, "")>>]
      [] name = "validateToken" ->
            [throws |-> FALSE, e |-> NoErr, ok |-> validateToken(o, r), calls |-> <<>>,
             fail |-> <<Send(401, "invalid token"),
                        ConsoleWarn("Received webhook request with invalid token", <<>>)>>]
      [] name = "validateSignature" ->
            LET calls == validateSignatureCalls(o, r)
            IN  [throws |-> calls # <<>> /\ timingSafeEqualThrows(Digest(Opt(o, "secret"), r.body), r.signature),
                 e |-> Err("RangeError", 0), ok |-> validateSignature(o, r),
                 calls |-> calls,
                 fail |-> (IF SignatureCompared(o, r)
                           THEN <<ConsoleWarn("Received webhook request with invalid signature (Body did not match header)", r.signature)>>
                           ELSE <<>>)
                          \o <<Send(401, "invalid signature"),
                               ConsoleWarn("Received webhook request with invalid signature", <<>>)>>]

RECURSIVE RunChecks_NoReturn(_, _, _, _)
\* the if statements without their return: a check that returns false sends its
\* response and the next check is made all the same
RunChecks_NoReturn(o, r, checks, done) ==
    IF checks = <<>> THEN Returned(done, "pass", NoErr)
    ELSE LET Decide(c) ==
                 LET called == done \o <<Call(Head(checks))>> \o c.calls
                 IN  IF c.throws THEN Returned(called, "throw", c.e)
                     ELSE IF ~c.ok THEN RunChecks_NoReturn(o, r, Tail(checks), called \o c.fail)
                     ELSE RunChecks_NoReturn(o, r, Tail(checks), called)
         IN  Decide(Check(o, r, Head(checks)))

RECURSIVE RunChecks(_, _, _, _)
\* the if statements named in checks, one after the other, after the effects in done:
\* the first check that throws or returns false ends handleRequest
RunChecks(o, r, checks, done) ==
    IF checks = <<>> THEN Returned(done, "pass", NoErr)
    ELSE LET Decide(c) ==
                 LET called == done \o <<Call(Head(checks))>> \o c.calls
                 IN  IF c.throws THEN Returned(called, "throw", c.e)
                     ELSE IF ~c.ok THEN Returned(called \o c.fail, "false", NoErr)
                     ELSE RunChecks(o, r, Tail(checks), called)
         IN  Decide(Check(o, r, Head(checks)))

\* the before notification emitted ahead of the response
Acknowledge_EmitFirst == <<Emit("before", NoErr), Send(200, "running")>>

\* what handleRequest does once every check has passed, before runAllCommands
Acknowledge == <<Send(200, "running"), Emit("before", NoErr)>>

\* handleRequest up to the call of runAllCommands: the effects in order and how it
\* ends: "false" (returns false), "throw" (an exception leaves it) or "run"
\* (runAllCommands is called and handleRequest returns true)
handleRequest(o, ls, r) ==
    IF ~validateRequest(r)
    THEN Returned(<<Call("validateRequest")>> \o validateRequestSends(r), "false", NoErr)
    ELSE LET Continue(checked) ==
                 LET pre == IF Opt(o, "precondition") # Undefined
                            THEN checked.log \o <<Call("precondition")>>
                            ELSE checked.log
                 IN  IF checked.ret # "pass" THEN checked
                     ELSE IF Opt(o, "precondition") = PreconditionFalse THEN Returned(pre, "false", NoErr)
                     ELSE IF \E k \in 1..Len(Acknowledge) :
                                Acknowledge[k].op = "emit" /\ emitThrows(ls, Acknowledge[k].s)
                          THEN LET k == CHOOSE j \in 1..Len(Acknowledge) :
                                            Acknowledge[j].op = "emit" /\ emitThrows(ls, Acknowledge[j].s)
                               IN  Returned(pre \o SubSeq(Acknowledge, 1, k), "throw",
                                            emitError(ls, Acknowledge[k].s, NoErr))
                     ELSE Returned(pre \o Acknowledge, "run", NoErr)
         IN  Continue(RunChecks(o, r, CheckOrder, <<Call("validateRequest")>>))

----------------------------------------------------------------------------
(* COMMANDS: the asynchronous run *)

\* this._options.delays[cat]; setTimeout treats an undefined time as no delay
DelayOf(o, c) == IF hasOwnProperty(Opt(o, "delays"), c) THEN Get(Opt(o, "delays"), c) ELSE 0

\* a category that has no entry in commands ends the loop of runAllCommands
NextCategory_StopAtMissing(o, k) ==
    IF k < Len(Opt(o, "commandOrder"))
       /\ (k = 0 \/ hasOwnProperty(Opt(o, "commands"), Opt(o, "commandOrder")[k]))
    THEN [log |-> <<SetTimeout(DelayOf(o, Opt(o, "commandOrder")[k + 1]), k + 1)>>,
          pc |-> "delay", cat |-> k + 1]
    ELSE [log |-> <<>>, pc |-> "resolved", cat |-> k]

\* the loop of runAllCommands moves on from position k of commandOrder: it waits
\* for the delay of the next category, or the promise is fulfilled
NextCategory(o, k) ==
    IF k < Len(Opt(o, "commandOrder"))
    THEN [log |-> <<SetTimeout(DelayOf(o, Opt(o, "commandOrder")[k + 1]), k + 1)>>,
          pc |-> "delay", cat |-> k + 1]
    ELSE [log |-> <<>>, pc |-> "resolved", cat |-> k]

\* runAllCommands up to its first await
runAllCommands(o) ==
    LET n == NextCategory(o, 0)
    IN  [n EXCEPT !.log = (IF Opt(o, "logCommands") THEN <<ConsoleLog("Running commands!", <<>>)>> ELSE <<>>) \o @]

\* runCommand(cmd) as child process number p, for the category at position k: the
\* command after substitution is logged and, unless dryCommands, handed to exec,
\* which spawns it or (thrown) throws
runCommand(o, cmd, p, k, thrown) ==
    LET c == replaceVars(o, cmd)
    IN     (IF Opt(o, "logCommands") \/ Opt(o, "dryCommands")
            THEN <<ConsoleLog(IF Opt(o, "dryCommands") THEN "RUN (dry) " ELSE "RUN ", c)>>
            ELSE <<>>)
        \o (IF Opt(o, "dryCommands") THEN <<>>
            ELSE IF thrown THEN <<ExecThrow(c, p, k)>>
            ELSE <<Exec(c, p, k)>>
                 \o (IF Opt(o, "logCommands")
                     THEN <<ConsoleLog("stdout", <<>>), ConsoleWarn("stderr", <<>>)>>
                     ELSE <<>>))


----------------------------------------------------------------------------
(* State *)

VARIABLES
    options,    \* this._options, set by the constructor
    listeners,  \* what is registered on the emitter for "before", "after", "error"
    req,        \* req[i]: the i-th request delivered to the middleware
    log,        \* log[i]: the effects performed for request i, in order
    pc,         \* pc[i]: where the handling of request i stands
    cat,        \* cat[i]: position in commandOrder of the run of request i
    idx,        \* idx[i]: position in the category's command list
    procs,      \* procs[i]: the child processes spawned by the run ("running", "exit0", "exit1")
    err         \* err[i]: the error the promise of runAllCommands is rejected with

vars == <<options, listeners, req, log, pc, cat, idx, procs, err>>

Ids == 1..MaxRequests

NoRequest == Request(Undefined, Undefined, Undefined, Undefined, Undefined, NonObject("undefined"))

\* the constructor has run and no request has been delivered
InitWith(userOptions, listenerSets) ==
    /\ options \in {Puller(u) : u \in userOptions}
    /\ listeners \in listenerSets
    /\ req = [i \in Ids |-> NoRequest]
    /\ log = [i \in Ids |-> <<>>]
    /\ pc = [i \in Ids |-> "idle"]
    /\ cat = [i \in Ids |-> 0]
    /\ idx = [i \in Ids |-> 0]
    /\ procs = [i \in Ids |-> <<>>]
    /\ err = [i \in Ids |-> NoErr]

----------------------------------------------------------------------------
(* Actions *)

\* a middleware with a global lock: no request is handled while the run of
\* another one is suspended at a delay or a command
HandleRequest_SingleFlight(i, r) ==
    /\ pc[i] = "idle"
    /\ \A j \in Ids : j < i => pc[j] \notin {"idle", "delay", "command"}
    /\ \E h \in {handleRequest(options, listeners, r)}, run \in {runAllCommands(options)} :
           /\ req' = [req EXCEPT ![i] = r]
           /\ IF h.ret = "run"
              THEN /\ log' = [log EXCEPT ![i] = h.log \o run.log]
                   /\ pc' = [pc EXCEPT ![i] = run.pc]
                   /\ cat' = [cat EXCEPT ![i] = run.cat]
              ELSE /\ log' = [log EXCEPT ![i] = h.log]
                   /\ pc' = [pc EXCEPT ![i] = IF h.ret = "throw" THEN "threw" ELSE "returned"]
                   /\ cat' = cat
           /\ err' = [err EXCEPT ![i] = h.e]
    /\ UNCHANGED <<options, listeners, idx, procs>>

\* the middleware is called with request r, the i-th of the behaviour:
\* handleRequest runs to its return, runAllCommands to its first await
HandleRequest(i, r) ==
    /\ pc[i] = "idle"
    /\ \A j \in Ids : j < i => pc[j] # "idle"
    /\ \E h \in {handleRequest(options, listeners, r)}, run \in {runAllCommands(options)} :
           /\ req' = [req EXCEPT ![i] = r]
           /\ IF h.ret = "run"
              THEN /\ log' = [log EXCEPT ![i] = h.log \o run.log]
                   /\ pc' = [pc EXCEPT ![i] = run.pc]
                   /\ cat' = [cat EXCEPT ![i] = run.cat]
              ELSE /\ log' = [log EXCEPT ![i] = h.log]
                   /\ pc' = [pc EXCEPT ![i] = IF h.ret = "throw" THEN "threw" ELSE "returned"]
                   /\ cat' = cat
           /\ err' = [err EXCEPT ![i] = h.e]
    /\ UNCHANGED <<options, listeners, idx, procs>>

\* the timer of delay() fires: runCategoryCommands(cat) starts
DelayElapsed(i) ==
    /\ pc[i] = "delay"
    /\ LET c == Opt(options, "commandOrder")[cat[i]]
           next == NextCategory(options, cat[i])
       IN  IF ~hasOwnProperty(Opt(options, "commands"), c)
           THEN /\ log' = [log EXCEPT ![i] = @ \o At(procs[i], <<ConsoleWarn("Tried to run commands of category, but category does not exist", <<>>)>> \o next.log)]
                /\ pc' = [pc EXCEPT ![i] = next.pc]
                /\ cat' = [cat EXCEPT ![i] = next.cat]
                /\ idx' = idx
           ELSE IF Get(Opt(options, "commands"), c) = <<>>
           THEN /\ log' = [log EXCEPT ![i] = @ \o At(procs[i], next.log)]
                /\ pc' = [pc EXCEPT ![i] = next.pc]
                /\ cat' = [cat EXCEPT ![i] = next.cat]
                /\ idx' = idx
           ELSE /\ pc' = [pc EXCEPT ![i] = "command"]
                /\ idx' = [idx EXCEPT ![i] = 1]
                /\ UNCHANGED <<log, cat>>
    /\ UNCHANGED <<options, listeners, req, procs, err>>

\* runCommand for the command at idx[i] of the current category; thrown: exec throws.
\* exec of child_process returns the ChildProcess, which is no promise: await exec(cmd)
\* resumes without waiting for the process, so nothing here waits for an exit
RunCommand(i, thrown) ==
    /\ pc[i] = "command"
    /\ thrown => ~Opt(options, "dryCommands")
    /\ LET cmds == Get(Opt(options, "commands"), Opt(options, "commandOrder")[cat[i]])
           p == Len(procs[i]) + 1
           next == NextCategory(options, cat[i])
       IN  /\ procs' = IF Opt(options, "dryCommands") \/ thrown THEN procs
                       ELSE [procs EXCEPT ![i] = Append(@, "running")]
           /\ IF thrown
              THEN /\ log' = [log EXCEPT ![i] = @ \o At(procs[i], runCommand(options, cmds[idx[i]], p, cat[i], TRUE))]
                   /\ pc' = [pc EXCEPT ![i] = "rejected"]
                   /\ err' = [err EXCEPT ![i] = Err("spawn", p)]
                   /\ UNCHANGED <<cat, idx>>
              ELSE IF idx[i] < Len(cmds)
              THEN /\ log' = [log EXCEPT ![i] = @ \o At(procs[i], runCommand(options, cmds[idx[i]], p, cat[i], FALSE))]
                   /\ idx' = [idx EXCEPT ![i] = @ + 1]
                   /\ UNCHANGED <<pc, cat, err>>
              ELSE /\ log' = [log EXCEPT ![i] = @ \o At(procs[i], runCommand(options, cmds[idx[i]], p, cat[i], FALSE) \o next.log)]
                   /\ pc' = [pc EXCEPT ![i] = next.pc]
                   /\ cat' = [cat EXCEPT ![i] = next.cat]
                   /\ UNCHANGED <<idx, err>>
    /\ UNCHANGED <<options, listeners, req>>

\* child process p of the run of request i exits with the given status
ProcessExit(i, p, status) ==
    /\ p \in 1..Len(procs[i])
    /\ procs[i][p] = "running"
    /\ procs' = [procs EXCEPT ![i][p] = IF status = 0 THEN "exit0" ELSE "exit1"]
    /\ UNCHANGED <<options, listeners, req, log, pc, cat, idx, err>>

\* the callback of .then(): emit("after", req, res)
Then(i) ==
    /\ pc[i] = "resolved"
    /\ log' = [log EXCEPT ![i] = @ \o At(procs[i], <<Emit("after", NoErr)>>)]
    /\ IF emitThrows(listeners, "after")
       THEN /\ pc' = [pc EXCEPT ![i] = "rejected"]
            /\ err' = [err EXCEPT ![i] = emitError(listeners, "after", NoErr)]
       ELSE /\ pc' = [pc EXCEPT ![i] = "done"]
            /\ err' = err
    /\ UNCHANGED <<options, listeners, req, cat, idx, procs>>

\* the callback of .catch(): emit("error", err); emit("after", req, res, err)
Catch(i) ==
    /\ pc[i] = "rejected"
    /\ IF emitThrows(listeners, "error")
       THEN /\ log' = [log EXCEPT ![i] = @ \o At(procs[i], <<Emit("error", err[i])>>)]
            /\ pc' = [pc EXCEPT ![i] = "unhandled"]
            /\ err' = [err EXCEPT ![i] = emitError(listeners, "error", err[i])]
       ELSE /\ log' = [log EXCEPT ![i] = @ \o At(procs[i], <<Emit("error", err[i]), Emit("after", err[i])>>)]
            /\ IF emitThrows(listeners, "after")
               THEN /\ pc' = [pc EXCEPT ![i] = "unhandled"]
                    /\ err' = [err EXCEPT ![i] = emitError(listeners, "after", err[i])]
               ELSE /\ pc' = [pc EXCEPT ![i] = "done"]
                    /\ err' = err
    /\ UNCHANGED <<options, listeners, req, cat, idx, procs>>

\* the steps of the runs, after the requests were handled
RunStep ==
    \E i \in Ids :
        \/ DelayElapsed(i)
        \/ \E thrown \in BOOLEAN : RunCommand(i, thrown)
        \/ \E p \in 1..Len(procs[i]), status \in {0, 1} : ProcessExit(i, p, status)
        \/ Then(i)
        \/ Catch(i)

----------------------------------------------------------------------------
(* Inputs: the options given to the constructor and the requests delivered *)

Str_create  == <<"c","r","e","a","t","e">>
Str_dev     == <<"d","e","v">>
Str_token   == <<"t","0","k">>
Str_tokenUC == <<"t","0","K">>
Str_key     == <<"k","e","y">>
Str_otherKey == <<"k","e","z">>
Str_me      == <<"m","e","!">>
Str_bot     == <<"[","B","o","t","]"," ","i","d","k">>
Str_hi      == <<"h","i","!">>
Str_nopull  == <<"[","n","o","p","u","l","l","]"," ","x">>
Str_POST    == <<"P","O","S","T">>
Str_GET     == <<"G","E","T">>
Str_curl    == <<"c","u","r","l","/","8">>
Str_hookshot == HOOKSHOT \o <<"1">>
Ref_main    == REFS_HEADS \o Str_main
Ref_dev     == REFS_HEADS \o Str_dev
Ref_tag     == REFS_TAGS \o <<"v","1">>

\* a push to main by a person: relevant under the default options
PushBody == Body(Ref_main, Undefined, User(Str_me), Commit(Str_hi), Commits(<<Commit(Str_hi)>>))

Bodies == {
    PushBody,
    Body(Ref_dev, Undefined, User(Str_me), Commit(Str_hi), Commits(<<Commit(Str_hi)>>)),
    Body(Ref_tag, Ref_main, User(Str_me), Commit(Str_hi), Commits(<<>>)),
    Body(Ref_main, Undefined, User(Str_bot), Commit(Str_hi), Commits(<<Commit(Str_hi)>>)),
    Body(Ref_main, Undefined, User(Str_me), Commit(Str_nopull), Commits(<<Commit(Str_nopull)>>)),
    Body(Ref_main, Undefined, NoUser, NoCommit, Commits(<<Commit(Str_nopull), Commit(Str_hi)>>)),
    Body(Undefined, Undefined, NoUser, NoCommit, NoCommits) }

\* the last character of a hex string replaced by another hex digit
Tamper(str) == [str EXCEPT ![Len(str)] = IF @ = "0" THEN "1" ELSE "0"]

\* signature headers a sender can attach to a body: the digest under the
\* configured key or under another key, and that digest cut, extended or altered
SignaturesFor(body) ==
    { Digest(Str_key, body),
      Digest(Str_otherKey, body),
      SubSeq(Digest(Str_key, body), 1, Len(Digest(Str_key, body)) - 1),
      Digest(Str_key, body) \o <<"0">>,
      Tamper(Digest(Str_key, body)) }

\* requests that differ in what validateRequest looks at
StructuralRequests ==
    { Request(m, ua, sig, ev, Str_token, b) :
        m \in {Str_POST, POST_LOWER, Str_GET},
        ua \in {Undefined, <<>>, Str_curl, Str_hookshot},
        sig \in {Undefined, <<>>, Digest(Str_key, PushBody)},
        ev \in {Undefined, <<>>, Str_push},
        b \in {NonObject("undefined"), NonObject("emptyString"), NonObject("emptyArray"), PushBody} }

\* requests validateRequest lets pass, which differ in event, body, token and signature
PipelineRequests ==
    UNION { { Request(Str_POST, Str_hookshot, sig, ev, tok, b) :
                sig \in SignaturesFor(b),
                ev \in {Str_push, Str_create},
                tok \in {Undefined, <<>>, Str_token, Str_tokenUC} } : b \in Bodies }

Requests == StructuralRequests \cup PipelineRequests

\* options that differ in what the checks of handleRequest look at; the run has
\* the one command of the default category "post"
CheckOptions ==
    { << Entry("events", ev), Entry("secret", se), Entry("token", tk),
         Entry("branches", br[1]), Entry("onlyTags", br[2]),
         Entry("pusherIgnoreRegex", pr), Entry("precondition", pre),
         Entry("commandOrder", <<"post">>) >> :
        ev \in {<<Str_push>>, <<STAR>>, <<>>},
        se \in {<<>>, Str_key},
        tk \in {<<>>, Str_token},
        br \in {<<<<Str_main>>, FALSE>>, <<<<Str_main>>, TRUE>>, <<<<STAR>>, FALSE>>},
        pr \in {BOT_REGEX},
        pre \in {Undefined, PreconditionTrue, PreconditionFalse} }

AllListen == [before |-> "ok", after |-> "ok", error |-> "ok"]

----------------------------------------------------------------------------
(* The specification of one request: any request, under any of the CheckOptions *)

Init == InitWith(CheckOptions, {AllListen})

NoneDelivered == \A j \in Ids : pc[j] = "idle"

Next ==
    \/ NoneDelivered /\ \E r \in Requests, i \in Ids : HandleRequest(i, r)
    \/ RunStep

Spec == Init /\ [][Next]_vars

----------------------------------------------------------------------------
(* The specification of one run: an accepted request (or one of a few rejected *)
(* ones) under options that differ in the commands, and any listeners          *)

Cmd_echo == <<"e","c","h","o"," ","$","a","p","p","N","a","m","e","$","$","r","e","m","o","t","e","$">>
Str_upstream == <<"u","p","s","t","r","e","a","m">>

\* the options argument as the list of the keys that are supplied: the defaults,
\* a dry run, an order with a category that does not exist, and no category at all
RunOptions ==
    { <<>>,
      <<Entry("dryCommands", TRUE)>>,
      <<Entry("commandOrder", <<"pre", "post">>),
        Entry("commands", <<Entry("pre", <<Cmd_echo>>)>>),
        Entry("logCommands", TRUE)>>,
      <<Entry("commandOrder", <<"post", "missing", "pre", "git">>),
        Entry("commands", <<Entry("pre", <<Cmd_echo>>), Entry("git", <<>>)>>),
        Entry("delays", <<Entry("pre", 5), Entry("post", 2)>>),
        Entry("vars", <<Entry(Str_remote, Str_upstream)>>)>>,
      <<Entry("commandOrder", <<"missing">>)>>,
      <<Entry("commandOrder", <<>>), Entry("dryCommands", TRUE), Entry("logCommands", TRUE)>> }

Listeners == [before : ListenerKinds, after : ListenerKinds, error : ListenerKinds]

RunRequests ==
    { Request(Str_POST, Str_hookshot, Digest(<<>>, PushBody), ev, Undefined, PushBody) :
        ev \in {Str_push, Str_create} }
    \cup { Request(Str_GET, Str_hookshot, Digest(<<>>, PushBody), Str_push, Undefined, PushBody) }

InitRun == InitWith(RunOptions, Listeners)

NextRun ==
    \/ NoneDelivered /\ \E r \in RunRequests, i \in Ids : HandleRequest(i, r)
    \/ RunStep

SpecRun == InitRun /\ [][NextRun]_vars

----------------------------------------------------------------------------
(* The specification of several requests: each is delivered while the runs of *)
(* the earlier ones are in progress, under the default options or a dry run   *)

PairOptions == { <<Entry("commandOrder", <<"pre", "post">>)>>,
                 <<Entry("commandOrder", <<"post">>), Entry("dryCommands", TRUE)>> }

InitPair == InitWith(PairOptions, {AllListen})

NextPair ==
    \/ \E r \in RunRequests, i \in Ids : HandleRequest(i, r)
    \/ RunStep

SpecPair == InitPair /\ [][NextPair]_vars

----------------------------------------------------------------------------
(* The specification of substitution: a dry run of one command template, for *)
(* templates made of tokens, dollar signs and letters, under maps of the     *)
(* variables a and b.  Names are letters, so that "\\$" + v + "\\$" is the    *)
(* literal token; no value holds a backquote or a quote.                     *)

Name_a == <<"a">>
Name_b == <<"b">>

\* $name$
Token(name) == <<"$">> \o name \o <<"$">>

Pieces == { Token(Name_a), Token(Name_b), <<"$">>, <<"a">>, <<"x">> }

RECURSIVE Concat(_)
Concat(parts) == IF parts = <<>> THEN <<>> ELSE Head(parts) \o Concat(Tail(parts))

Templates == { Concat(p) : p \in UNION { [1..n -> Pieces] : n \in 0..MaxPieces } }

\* values of a variable: plain text, a token of a or of b, parts of a token, and
\* the replacement patterns $$ and $& of String.prototype.replace
Values == { <<"X">>, Token(Name_a), Token(Name_b), <<"$">>, <<"a">>, <<"$","$">>, <<"$","&">> }

\* options.vars, in the order of its keys
VarMaps ==
    { <<Entry(Name_a, va), Entry(Name_b, vb)>> : va \in Values, vb \in Values }
    \cup { <<Entry(Name_b, vb), Entry(Name_a, va)>> : va \in Values, vb \in Values }
    \cup { <<Entry(Name_a, va)>> : va \in Values }

VarOptions ==
    { << Entry("vars", v), Entry("commandOrder", <<"post">>),
         Entry("commands", <<Entry("post", <<t>>)>>), Entry("dryCommands", TRUE) >> :
        v \in VarMaps, t \in Templates }

AcceptedRequest == Request(Str_POST, Str_hookshot, Digest(<<>>, PushBody), Str_push, Undefined, PushBody)

InitVars == InitWith(VarOptions, {AllListen})

\* the steps of a dry run: no process is spawned and nothing is rejected
NextVars ==
    \/ NoneDelivered /\ \E i \in Ids : HandleRequest(i, AcceptedRequest)
    \/ \E i \in Ids : DelayElapsed(i)
    \/ \E i \in Ids : RunCommand(i, FALSE)
    \/ \E i \in Ids : Then(i)

SpecVars == InitVars /\ [][NextVars]_vars

----------------------------------------------------------------------------
(* The specification of the relevance filters: requests that validateRequest *)
(* lets pass, with any of the FilterBodies, under options that differ in     *)
(* events, branches, onlyTags and the two patterns; no token and no secret   *)

Ref_mainSpace == Ref_main \o <<" ">>
Ref_inside    == <<"m","a">> \o REFS_HEADS \o <<"i","n">>
Ref_master    == REFS_HEADS \o Str_master
Str_botUpper  == <<"x"," ","[","B","O","T","]">>

\* a push to ref (a tag when base_ref is given) by a person, with one commit
RefBody(ref, base_ref) == Body(ref, base_ref, User(Str_me), Commit(Str_hi), Commits(<<Commit(Str_hi)>>))

PusherBody(pusher) == Body(Ref_main, Undefined, pusher, Commit(Str_hi), Commits(<<Commit(Str_hi)>>))

CommitBody(head_commit, commits) == Body(Ref_main, Undefined, User(Str_me), head_commit, commits)

FilterBodies ==
    { RefBody(Ref_main, Undefined), RefBody(Ref_dev, Undefined), RefBody(Ref_mainSpace, Undefined),
      RefBody(Ref_inside, Undefined), RefBody(Ref_tag, Ref_main), RefBody(Ref_tag, Ref_master),
      RefBody(Ref_tag, Undefined), RefBody(Undefined, Undefined), RefBody(Undefined, Ref_main) }
    \cup { PusherBody(NoUser), PusherBody(User(Undefined)), PusherBody(User(<<>>)),
            PusherBody(User(Str_bot)), PusherBody(User(Str_botUpper)) }
    \cup { CommitBody(Commit(Str_nopull), Commits(<<Commit(Str_hi)>>)),
            CommitBody(Commit(Str_hi), Commits(<<Commit(Str_nopull)>>)),
            CommitBody(Commit(Undefined), NoCommits),
            CommitBody(NoCommit, Commits(<<Commit(Str_nopull), Commit(Str_hi)>>)),
            CommitBody(NoCommit, Commits(<<Commit(Str_hi), Commit(Str_nopull)>>)),
            CommitBody(NoCommit, Commits(<<>>)),
            CommitBody(NoCommit, NoCommits) }

FilterRequests ==
    { Request(Str_POST, Str_hookshot, Digest(<<>>, b), ev, Undefined, b) :
        ev \in {Str_push, Str_create}, b \in FilterBodies }

FilterOptions ==
    { << Entry("events", ev), Entry("branches", br[1]), Entry("onlyTags", br[2]),
         Entry("pusherIgnoreRegex", pr), Entry("commitIgnoreRegex", cr),
         Entry("commandOrder", <<"post">>) >> :
        ev \in {<<Str_push>>, <<STAR>>, <<>>, <<Str_create, Str_push>>, <<Str_create, STAR>>},
        br \in {<<<<Str_main>>, FALSE>>, <<<<Str_main>>, TRUE>>, <<<<Str_dev, Str_main>>, FALSE>>,
                <<<<STAR>>, TRUE>>, <<<<Str_dev, STAR>>, FALSE>>, <<<<>>, FALSE>>},
        pr \in {BOT_REGEX, Undefined},
        cr \in {NOPULL_REGEX, Undefined} }

InitFilter == InitWith(FilterOptions, {AllListen})

NextFilter ==
    \/ NoneDelivered /\ \E r \in FilterRequests, i \in Ids : HandleRequest(i, r)
    \/ RunStep

SpecFilter == InitFilter /\ [][NextFilter]_vars

----------------------------------------------------------------------------
(* The specification of the constructor: options arguments that supply none, *)
(* new or default keys of vars, commands and delays; the run is dry          *)

Str_deploy == <<"d","e","p","l","o","y">>

\* what the options argument supplies for vars: nothing, the empty map, a new
\* key, a default key, both
UserVars ==
    { <<>>,
      <<Entry("vars", <<>>)>>,
      <<Entry("vars", <<Entry(Str_deploy, Str_upstream)>>)>>,
      <<Entry("vars", <<Entry(Str_remote, Str_upstream)>>)>>,
      <<Entry("vars", <<Entry(Str_deploy, Str_main), Entry(Str_branch, Str_main), Entry(Str_appName, <<>>)>>)>> }

UserCommands ==
    { <<>>,
      <<Entry("commands", <<>>)>>,
      <<Entry("commands", <<Entry("deploy", <<Cmd_echo>>)>>)>>,
      <<Entry("commands", <<Entry("post", <<Cmd_echo>>)>>)>>,
      <<Entry("commands", <<Entry("git", <<>>), Entry("deploy", <<Cmd_echo, Cmd_echo>>)>>)>> }

UserDelays ==
    { <<>>,
      <<Entry("delays", <<>>)>>,
      <<Entry("delays", <<Entry("deploy", 3)>>)>>,
      <<Entry("delays", <<Entry("git", 2), Entry("deploy", 0)>>)>> }

UserOrder == { <<>>, <<Entry("commandOrder", <<"git", "deploy", "post">>)>> }

MergeOptions ==
    { v \o c \o d \o co \o <<Entry("dryCommands", TRUE)>> :
        v \in UserVars, c \in UserCommands, d \in UserDelays, co \in UserOrder }

InitMerge == InitWith(MergeOptions, {AllListen})

NextMerge ==
    \/ NoneDelivered /\ \E i \in Ids : HandleRequest(i, AcceptedRequest)
    \/ \E i \in Ids : DelayElapsed(i)
    \/ \E i \in Ids : RunCommand(i, FALSE)
    \/ \E i \in Ids : Then(i)

SpecMerge == InitMerge /\ [][NextMerge]_vars

----------------------------------------------------------------------------
(* Vocabulary of the properties *)

Delivered(i) == pc[i] # "idle"

\* the responses sent for request i, in order
Sends(i) == SelectSeq(log[i], LAMBDA e : e.op = "send")

SendsOf(effects) == SelectSeq(effects, LAMBDA e : e.op = "send")

Called(i, name) == \E k \in 1..Len(log[i]) : log[i][k].op = "call" /\ log[i][k].s = name

\* no timer was set, no command started or attempted, nothing emitted for request i
NoRunNoEvents(i) ==
    /\ \A k \in 1..Len(log[i]) : log[i][k].op \notin {"setTimeout", "exec", "execThrow", "emit"}
    /\ procs[i] = <<>>

\* the diagnostic texts of the structural checks that request r fails, in the
\* order method, user agent presence, user agent prefix, signature header, event
\* header, body
Diagnosis(r) ==
    LET checks == <<
            [failed |-> toLowerCase(r.method) # POST_LOWER, text |-> "invalid request method"],
            [failed |-> r.userAgent = Undefined \/ Len(r.userAgent) = 0, text |-> "missing user agent header"],
            [failed |-> \A k \in 0..Len(r.userAgent) : SubSeq(r.userAgent, 1, k) # HOOKSHOT, text |-> "invalid user agent"],
            [failed |-> r.signature = Undefined \/ Len(r.signature) = 0, text |-> "missing request signature"],
            [failed |-> r.event = Undefined \/ Len(r.event) = 0, text |-> "missing event"],
            [failed |-> r.body.kind # "object", text |-> "missing body"] >>
    IN  SelectSeq(checks, LAMBDA c : c.failed)

WellFormed(r) == Diagnosis(r) = <<>>

\* the relevance filter that rejects request r: the first of event, ref, pusher,
\* commit that does not return true returns false ("throws" if it throws instead,
\* "relevant" if all four return true)
Relevance(o, r) ==
    IF ~shouldHandleEvent(o, r) THEN "event"
    ELSE IF shouldHandleRefThrows(o, r) THEN "throws"
    ELSE IF ~shouldHandleRef(o, r) THEN "ref"
    ELSE IF ~shouldHandlePusher(o, r) THEN "pusher"
    ELSE IF ~shouldHandleCommit(o, r) THEN "commit"
    ELSE "relevant"

Rejected(o, r) == WellFormed(r) /\ Relevance(o, r) \in {"event", "ref", "pusher", "commit"}

Relevant(o, r) == WellFormed(r) /\ Relevance(o, r) = "relevant"

TokenConfigured(o) == Opt(o, "token") # Undefined /\ Len(Opt(o, "token")) > 0

TokenAccepted(o, r) == TokenConfigured(o) => r.token = Opt(o, "token")

SecretConfigured(o) == Opt(o, "secret") # Undefined /\ Len(Opt(o, "secret")) > 0

\* "sha1=" followed by the hex HMAC of the body under the secret
ExpectedSignature(o, r) == SHA1_PREFIX \o HmacHex(Opt(o, "secret"), stringify(r.body))

----------------------------------------------------------------------------
(* C1 -- structural checks *)

\* C1: a request that fails a structural check is answered 400 with the text of
\* the first failing check in the order method, user agent presence, user agent
\* prefix, signature header, event header, body; nothing else is done for it: no
\* relevance or authentication check, no command, no lifecycle event.
C1_FirstStructuralFailure ==
    \A i \in Ids :
        (Delivered(i) /\ ~WellFormed(req[i])) =>
            /\ log[i] = <<Call("validateRequest"), Send(400, Diagnosis(req[i])[1].text)>>
            /\ pc[i] = "returned"
            /\ NoRunNoEvents(i)

\* a request that fails four structural checks, the event header among them, was answered
C1_Witness ==
    \E i \in Ids :
        /\ Delivered(i)
        /\ Len(Diagnosis(req[i])) >= 4
        /\ Diagnosis(req[i])[1].text = "invalid user agent"
        /\ Sends(i) = <<Send(400, "invalid user agent")>>

----------------------------------------------------------------------------
(* C2, C3 -- requests rejected by a relevance filter *)

\* the query tokens a sender can attach
AnyToken == {Undefined, <<>>, Str_token, Str_tokenUC}

\* C2: a well-formed request that a relevance filter rejects is answered 200 with
\* an empty body, the token and the signature check are not evaluated for it, and
\* the same request with any other token and signature gets the same response.
C2_RejectedAnsweredAlike ==
    \A i \in Ids :
        (Delivered(i) /\ Rejected(options, req[i])) =>
            /\ Sends(i) = <<Send(200, "")>>
            /\ ~Called(i, "validateToken")
            /\ ~Called(i, "validateSignature")
            /\ \A k \in 1..Len(log[i]) : log[i][k].op # "timingSafeEqual"
            /\ \A tok \in AnyToken, sig \in {ExpectedSignature(options, req[i]),
                                              Tamper(ExpectedSignature(options, req[i]))} :
                  SendsOf(handleRequest(options, listeners,
                                        [req[i] EXCEPT !.token = tok, !.signature = sig]).log)
                      = Sends(i)

\* a rejected request whose token and signature would both fail was answered 200
C2_Witness ==
    \E i \in Ids :
        /\ Delivered(i)
        /\ Rejected(options, req[i])
        /\ TokenConfigured(options) /\ ~TokenAccepted(options, req[i])
        /\ SecretConfigured(options) /\ req[i].signature # ExpectedSignature(options, req[i])
        /\ Sends(i) = <<Send(200, "")>>

\* C3: a request rejected by a relevance filter is answered 200, and in no state
\* after that has a command of it been started or a before, after or error
\* notification been emitted for it.
C3_RejectedRunsNothing ==
    \A i \in Ids :
        (Delivered(i) /\ Rejected(options, req[i])) =>
            /\ \E k \in 1..Len(log[i]) : log[i][k] = Send(200, "")
            /\ Len(Sends(i)) = 1
            /\ NoRunNoEvents(i)
            /\ pc[i] = "returned"

\* a request that only the commit filter rejects, and that would run otherwise, was answered
C3_Witness ==
    \E i \in Ids :
        /\ Delivered(i)
        /\ Relevance(options, req[i]) = "commit"
        /\ WellFormed(req[i])
        /\ TokenAccepted(options, req[i])
        /\ ~SecretConfigured(options)
        /\ Opt(options, "precondition") = Undefined
        /\ pc[i] = "returned"
        /\ Len(Sends(i)) = 1

----------------------------------------------------------------------------
(* C4, C5, C6 -- token and signature *)

\* C4: the token check is enforced only when a non-empty token is configured; a
\* relevant, well-formed request whose query token is not exactly the configured
\* one (or is missing or empty) is answered 401 "invalid token", before the
\* signature is looked at, and runs no command and emits nothing; with no token
\* configured or with the exact token the request is not answered "invalid token".
C4_TokenCheck ==
    \A i \in Ids :
        (Delivered(i) /\ Relevant(options, req[i])) =>
            IF TokenConfigured(options) /\ req[i].token # Opt(options, "token")
            THEN /\ Sends(i) = <<Send(401, "invalid token")>>
                 /\ ~Called(i, "validateSignature")
                 /\ NoRunNoEvents(i)
                 /\ pc[i] = "returned"
            ELSE /\ \A k \in 1..Len(log[i]) : log[i][k].s # "invalid token"
                 /\ Called(i, "validateSignature")

\* a request whose token differs from the configured one only in case, and whose
\* signature is wrong as well, was answered "invalid token"
C4_Witness ==
    \E i \in Ids :
        /\ Delivered(i)
        /\ Relevant(options, req[i])
        /\ TokenConfigured(options)
        /\ req[i].token = Str_tokenUC
        /\ SecretConfigured(options) /\ req[i].signature # ExpectedSignature(options, req[i])
        /\ Sends(i) = <<Send(401, "invalid token")>>

\* C5: with a secret configured, validateSignature returns true iff the signature
\* header is "sha1=" followed by the hex HMAC of the body under the secret; for
\* any other header (shorter, longer, or of the same length) it returns false
\* without throwing and the request is answered 401 "invalid signature", runs no
\* command and emits nothing; with no secret it returns true.
C5_SignatureCheck ==
    \A i \in Ids :
        (Delivered(i) /\ Relevant(options, req[i]) /\ TokenAccepted(options, req[i])) =>
            IF SecretConfigured(options)
            THEN IF req[i].signature = ExpectedSignature(options, req[i])
                 THEN /\ validateSignature(options, req[i])
                      /\ \A k \in 1..Len(log[i]) : log[i][k].s # "invalid signature"
                      /\ pc[i] # "threw"
                 ELSE /\ ~validateSignature(options, req[i])
                      /\ Sends(i) = <<Send(401, "invalid signature")>>
                      /\ pc[i] = "returned"
                      /\ NoRunNoEvents(i)
            ELSE /\ validateSignature(options, req[i])
                 /\ \A k \in 1..Len(log[i]) : log[i][k].s # "invalid signature"

\* a request whose signature is the right digest cut by one character was answered 401
C5_Witness ==
    \E i \in Ids :
        /\ Delivered(i)
        /\ Relevant(options, req[i]) /\ TokenAccepted(options, req[i])
        /\ SecretConfigured(options)
        /\ Len(req[i].signature) = Len(ExpectedSignature(options, req[i])) - 1
        /\ Sends(i) = <<Send(401, "invalid signature")>>

\* a request whose signature is the right digest was let through the signature check
C5_WitnessValid ==
    \E i \in Ids :
        /\ Delivered(i)
        /\ Relevant(options, req[i]) /\ TokenAccepted(options, req[i])
        /\ SecretConfigured(options)
        /\ req[i].signature = ExpectedSignature(options, req[i])
        /\ Sends(i) = <<Send(200, "running")>>

\* C6: with no secret configured, a POST of the hook's user agent with an event
\* header and a body, relevant and with an accepted token, that carries no
\* signature header is accepted: it is answered 200 "running".
C6_SignatureHeaderOptional ==
    \A i \in Ids :
        (/\ Delivered(i)
         /\ ~SecretConfigured(options)
         /\ req[i].signature = Undefined
         /\ WellFormed([req[i] EXCEPT !.signature = Digest(<<>>, req[i].body)])
         /\ Relevance(options, req[i]) = "relevant"
         /\ TokenAccepted(options, req[i])
         /\ Opt(options, "precondition") # PreconditionFalse)
        => Sends(i) = <<Send(200, "running")>>

----------------------------------------------------------------------------
(* C7 .. C10 -- the run of an accepted request *)

\* runAllCommands was called for request i
Running(i) == pc[i] \in {"delay", "command", "resolved", "rejected", "done", "unhandled"}

\* the callbacks of the promise of runAllCommands have run
Settled(i) == pc[i] \in {"done", "unhandled"}

\* the notifications emitted for request i, in order, as <<name, error>>
Emits(i) ==
    LET emits == SelectSeq(log[i], LAMBDA e : e.op = "emit")
    IN  [k \in 1..Len(emits) |-> <<emits[k].s, emits[k].e>>]

\* the positions of log[i] at which a timer is set or a command is handed to exec
Starts(i) == {k \in 1..Len(log[i]) : log[i][k].op \in {"setTimeout", "exec", "execThrow"}}

\* C7: for an accepted request 200 "running" is sent before the before
\* notification is emitted and before the first delay or command of the run, and
\* whatever the run does, no other response is sent.
C7_AcknowledgedFirst ==
    \A i \in Ids :
        /\ \A k \in 1..Len(log[i]) :
              (log[i][k].op = "emit" \/ k \in Starts(i)) =>
                  \E j \in 1..(k - 1) : log[i][j] = Send(200, "running")
        /\ Running(i) => Sends(i) = <<Send(200, "running")>>

\* a run in which a command failed has come to its end with the one response sent
C7_Witness ==
    \E i \in Ids :
        /\ pc[i] = "done"
        /\ \E p \in 1..Len(procs[i]) : procs[i][p] = "exit1"
        /\ Emits(i)[1] = <<"before", NoErr>>
        /\ Sends(i) = <<Send(200, "running")>>

\* C8: for an accepted request, before is emitted once, ahead of every delay and
\* command; when the run has completed, after is emitted with no error and error
\* is not emitted; when the run has failed, error is emitted with the failure and
\* then after with the same failure.
C8_Lifecycle ==
    \A i \in Ids :
        /\ Running(i) =>
              /\ Emits(i)[1] = <<"before", NoErr>>
              /\ \A k \in 2..Len(Emits(i)) : Emits(i)[k][1] # "before"
              /\ \A k \in Starts(i) : \E j \in 1..(k - 1) : log[i][j] = Emit("before", NoErr)
        /\ Settled(i) =>
              IF \E k \in 1..Len(log[i]) : log[i][k].op = "execThrow"
              THEN LET failure == log[i][CHOOSE k \in 1..Len(log[i]) : log[i][k].op = "execThrow"].e
                   IN  Emits(i) = <<<<"before", NoErr>>, <<"error", failure>>, <<"after", failure>>>>
              ELSE Emits(i) = <<<<"before", NoErr>>, <<"after", NoErr>>>>

\* the category at position k of commandOrder has commands
HasCommands(o, k) ==
    /\ hasOwnProperty(Opt(o, "commands"), Opt(o, "commandOrder")[k])
    /\ Get(Opt(o, "commands"), Opt(o, "commandOrder")[k]) # <<>>

\* the commands handed to exec for the category at position k, in order
Execs(i, k) ==
    LET execs == SelectSeq(log[i], LAMBDA e : e.op \in {"exec", "execThrow"} /\ e.m = k)
    IN  [j \in 1..Len(execs) |-> execs[j].c]

\* C9: the categories are taken in the order of commandOrder, the delay of a
\* category is waited for before its first command, the commands of a category
\* start in list order after substitution, and no command of a later category
\* starts while a command of an earlier category is still running.
C9_CategoryOrder ==
    \A i \in Ids :
        LET timers == SelectSeq(log[i], LAMBDA e : e.op = "setTimeout")
            order == Opt(options, "commandOrder")
        IN  /\ \A k \in 1..Len(timers) :
                  timers[k].m = k /\ timers[k].n = DelayOf(options, order[k])
            /\ \A k \in 1..Len(log[i]) :
                  log[i][k].op \in {"exec", "execThrow"} =>
                      /\ \E j \in 1..(k - 1) : log[i][j].op = "setTimeout" /\ log[i][j].m = log[i][k].m
                      /\ \A j \in 1..(k - 1) : log[i][j].op = "setTimeout" => log[i][j].m <= log[i][k].m
                      /\ \A j \in 1..(k - 1) :
                            (log[i][j].op = "exec" /\ log[i][j].m < log[i][k].m) =>
                                log[i][k].w[log[i][j].n] # "running"
            /\ \A k \in 1..Len(order) :
                  Execs(i, k) # <<>> =>
                      /\ HasCommands(options, k)
                      /\ Len(Execs(i, k)) <= Len(Get(Opt(options, "commands"), order[k]))
                      /\ \A j \in 1..Len(Execs(i, k)) :
                            Execs(i, k)[j] = replaceVars(options, Get(Opt(options, "commands"), order[k])[j])

\* C10: once a command of a run has failed (its process exited with a non-zero
\* status, or exec threw), no command and no delay of that run is started, and
\* the promise of runAllCommands is rejected, not fulfilled.
C10_FirstFailureAborts ==
    \A i \in Ids :
        /\ \A k \in Starts(i) :
              /\ \A p \in 1..Len(log[i][k].w) : log[i][k].w[p] # "exit1"
              /\ \A j \in 1..(k - 1) : log[i][j].op # "execThrow"
        /\ pc[i] = "resolved" => \A p \in 1..Len(procs[i]) : procs[i][p] # "exit1"

----------------------------------------------------------------------------
(* C11 .. C13 -- categories without commands, dry runs, the complete run *)

\* effect e is effect f, whatever the child processes were doing
Same(e, f) == [e EXCEPT !.w = <<>>] = f

\* the positions of commandOrder whose category has no entry in commands
MissingCategories(o) ==
    {k \in 1..Len(Opt(o, "commandOrder")) :
        ~hasOwnProperty(Opt(o, "commands"), Opt(o, "commandOrder")[k])}

\* exec threw for a command of the run of request i
ExecThrew(i) == \E k \in 1..Len(log[i]) : log[i][k].op = "execThrow"

\* C11: a category of commandOrder that has no entry in commands is a no-op: once
\* its delay has elapsed a warning is logged, no command is started for it, and
\* the run goes on with the delay of the next category of commandOrder (or, after
\* the last category, is fulfilled); a run in which exec never threw sets the
\* timers of all categories in order and ends with after emitted without error.
C11_MissingCategoryNoOp ==
    \A i \in Ids :
        LET order == Opt(options, "commandOrder")
            timers == SelectSeq(log[i], LAMBDA e : e.op = "setTimeout")
        IN  /\ \A k \in MissingCategories(options) :
                  /\ Execs(i, k) = <<>>
                  /\ \A j \in 1..Len(log[i]) :
                        (log[i][j].op = "setTimeout" /\ log[i][j].m = k
                            /\ ~(pc[i] = "delay" /\ cat[i] = k)) =>
                            /\ j + 1 <= Len(log[i])
                            /\ log[i][j + 1].op = "warn"
                            /\ IF k < Len(order)
                               THEN /\ j + 2 <= Len(log[i])
                                    /\ Same(log[i][j + 2], SetTimeout(DelayOf(options, order[k + 1]), k + 1))
                               ELSE /\ pc[i] # "rejected" \/ \E n \in 1..Len(log[i]) : log[i][n].op = "emit" /\ log[i][n].s = "after"
                                    /\ j + 2 <= Len(log[i]) => Same(log[i][j + 2], Emit("after", NoErr))
            /\ (Settled(i) /\ ~ExecThrew(i)) =>
                  /\ Len(timers) = Len(order)
                  /\ \A k \in 1..Len(timers) : timers[k].m = k
                  /\ Len(Emits(i)) >= 2 /\ Emits(i)[2] = <<"after", NoErr>>

\* a run whose second category does not exist has started the command of its
\* third category and has ended
C11_Witness ==
    \E i \in Ids :
        /\ pc[i] = "done"
        /\ 2 \in MissingCategories(options)
        /\ Execs(i, 1) # <<>> /\ Execs(i, 3) # <<>>
        /\ Emits(i) = <<<<"before", NoErr>>, <<"after", NoErr>>>>

\* C12: with dryCommands no child process is ever spawned for a command of a
\* run, and the run of an accepted request still completes: after is emitted
\* without error and error is not emitted.
C12_DryRun ==
    \A i \in Ids :
        Opt(options, "dryCommands") =>
            /\ procs[i] = <<>>
            /\ \A k \in 1..Len(log[i]) : log[i][k].op \notin {"exec", "execThrow"}
            /\ \A k \in 1..Len(Emits(i)) : Emits(i)[k][1] # "error"
            /\ Settled(i) => Emits(i) = <<<<"before", NoErr>>, <<"after", NoErr>>>>

\* the commands of all categories of commandOrder, in order, after substitution
RECURSIVE AllCommands(_, _)
AllCommands(o, k) ==
    IF k > Len(Opt(o, "commandOrder")) THEN <<>>
    ELSE (IF HasCommands(o, k)
          THEN LET cmds == Get(Opt(o, "commands"), Opt(o, "commandOrder")[k])
               IN  [j \in 1..Len(cmds) |-> replaceVars(o, cmds[j])]
          ELSE <<>>) \o AllCommands(o, k + 1)

\* the commands handed to exec before position n of log[i], in order
ExecsBefore(i, n) ==
    LET execs == SelectSeq(SubSeq(log[i], 1, n - 1), LAMBDA e : e.op = "exec")
    IN  [j \in 1..Len(execs) |-> execs[j].c]

\* C13: when the commands of the run of an accepted request all succeed (every
\* child process has exited with status 0, exec never threw), after was emitted
\* without error, and at the moment it was emitted every command of every
\* category of commandOrder had been executed once, in order, and had finished.
C13_AfterWhenAllFinished ==
    \A i \in Ids :
        (/\ Settled(i)
         /\ ~Opt(options, "dryCommands")
         /\ ~ExecThrew(i)
         /\ \A p \in 1..Len(procs[i]) : procs[i][p] = "exit0") =>
            /\ Sends(i) = <<Send(200, "running")>>
            /\ \E n \in 1..Len(log[i]) :
                  /\ Same(log[i][n], Emit("after", NoErr))
                  /\ ExecsBefore(i, n) = AllCommands(options, 1)
                  /\ Len(log[i][n].w) = Len(AllCommands(options, 1))
                  /\ \A p \in 1..Len(log[i][n].w) : log[i][n].w[p] = "exit0"

----------------------------------------------------------------------------
(* C14 -- the precondition *)

\* the position in log[i] of the first call of the method or function name (0: not called)
CallAt(i, name) ==
    IF Called(i, name)
    THEN CHOOSE k \in 1..Len(log[i]) :
            /\ log[i][k] = Call(name)
            /\ \A j \in 1..(k - 1) : log[i][j] # Call(name)
    ELSE 0

\* the signature of request r is the one the secret of o demands
SignatureAccepted(o, r) == SecretConfigured(o) => r.signature = ExpectedSignature(o, r)

\* C14: the precondition is called only for a request that passed the event, ref,
\* pusher, commit, token and signature checks, after all of them, and is called
\* for every such request when it is configured; when it returns false no
\* command is run and no before, after or error notification is emitted.
C14_PreconditionLast ==
    \A i \in Ids :
        Delivered(i) =>
            /\ Called(i, "precondition") <=>
                  /\ Opt(options, "precondition") # Undefined
                  /\ Relevant(options, req[i])
                  /\ TokenAccepted(options, req[i])
                  /\ SignatureAccepted(options, req[i])
            /\ Called(i, "precondition") =>
                  \A k \in 1..Len(CheckOrder) :
                      /\ Called(i, CheckOrder[k])
                      /\ CallAt(i, CheckOrder[k]) < CallAt(i, "precondition")
            /\ (Called(i, "precondition") /\ Opt(options, "precondition") = PreconditionFalse) =>
                  /\ NoRunNoEvents(i)
                  /\ pc[i] = "returned"

\* a request with the configured token and the right signature was stopped by
\* a precondition that returns false
C14_Witness ==
    \E i \in Ids :
        /\ Delivered(i)
        /\ Opt(options, "precondition") = PreconditionFalse
        /\ TokenConfigured(options) /\ SecretConfigured(options)
        /\ Called(i, "precondition")
        /\ pc[i] = "returned"

----------------------------------------------------------------------------
(* C15 .. C17 -- replaceVars *)

\* the command template of the run, and the commands logged by runCommand for request i
Template == Get(Opt(options, "commands"), "post")[1]

Substituted(i) ==
    LET runs == SelectSeq(log[i], LAMBDA e : e.op = "log" /\ e.s = "RUN (dry) ")
    IN  [k \in 1..Len(runs) |-> runs[k].c]

\* str with the occurrences of token, taken from the left, replaced by value as it is
RECURSIVE ReplacedLiterally(_, _, _)
ReplacedLiterally(str, token, value) ==
    IF Len(str) < Len(token) THEN str
    ELSE IF SubSeq(str, 1, Len(token)) = token
         THEN value \o ReplacedLiterally(SubSeq(str, Len(token) + 1, Len(str)), token, value)
    ELSE <<str[1]>> \o ReplacedLiterally(SubSeq(str, 2, Len(str)), token, value)

\* the variables of the list taken one after the other
RECURSIVE SubstitutedInOrder(_, _)
SubstitutedInOrder(vs, str) ==
    IF vs = <<>> THEN str
    ELSE SubstitutedInOrder(Tail(vs), ReplacedLiterally(str, Token(vs[1].name), vs[1].value))

\* string str holds string part
Holds(str, part) == \E k \in 1..(Len(str) - Len(part) + 1) : SubSeq(str, k, k + Len(part) - 1) = part

Plain(o, value) ==
    \A k \in 1..Len(value) :
        /\ value[k] # "$"
        /\ \A n \in 1..Len(Opt(o, "vars")) :
              \A j \in 1..Len(Opt(o, "vars")[n].name) : Opt(o, "vars")[n].name[j] # value[k]

\* the variable processed last, and the variables processed before it
LastVar(o) == Opt(o, "vars")[Len(Opt(o, "vars"))]

EarlierVars(o) == SubSeq(Opt(o, "vars"), 1, Len(Opt(o, "vars")) - 1)

\* C16: the variables are applied one after the other, each to the result of the
\* one before.  A token of the variable processed last is substituted wherever
\* it came from, a value of an earlier variable included: when its own value is
\* plain text no token of it is left.  A token of an earlier variable that the
\* value of the last variable brings in is left in the result.  With a = "$b$"
\* and b = "X" the template "$a$" becomes "X" when a comes before b, and "$b$"
\* when b comes before a.
C16_OneAfterTheOther ==
    \A i \in Ids : \A k \in 1..Len(Substituted(i)) :
        LET c == Substituted(i)[k]
            last == LastVar(options)
            earlier == EarlierVars(options)
        IN  /\ Plain(options, last.value) => ~Holds(c, Token(last.name))
            /\ \A n \in 1..Len(earlier) :
                  (/\ Holds(last.value, Token(earlier[n].name))
                   /\ Holds(Template, Token(last.name))
                   /\ \A m \in 1..Len(earlier) : ~Holds(Template, Token(earlier[m].name)))
                  => Holds(c, Token(earlier[n].name))
            /\ (/\ Template = Token(Name_a)
                 /\ hasOwnProperty(Opt(options, "vars"), Name_b)
                 /\ Get(Opt(options, "vars"), Name_a) = Token(Name_b)
                 /\ Get(Opt(options, "vars"), Name_b) = <<"X">>)
                => c = (IF last.name = Name_b THEN <<"X">> ELSE Token(Name_b))

\* the template "$a$" was run as "X" under a = "$b$", b = "X", a before b
C16_Witness ==
    \E i \in Ids :
        /\ Template = Token(Name_a)
        /\ LastVar(options) = Entry(Name_b, <<"X">>)
        /\ Get(Opt(options, "vars"), Name_a) = Token(Name_b)
        /\ Substituted(i) = << <<"X">> >>

\* no value of a variable holds a token of another configured variable
NoTokenOfAnother(o) ==
    \A n, m \in 1..Len(Opt(o, "vars")) :
        n # m => ~Holds(Opt(o, "vars")[n].value, Token(Opt(o, "vars")[m].name))

\* str holds no token of a configured variable
Resolved(o, str) == \A n \in 1..Len(Opt(o, "vars")) : ~Holds(str, Token(Opt(o, "vars")[n].name))

----------------------------------------------------------------------------
(* C18 .. C20 -- the relevance filters *)

\* request i was answered 200 with an empty body and nothing else was done for it
SoftRejected(i) ==
    /\ Sends(i) = <<Send(200, "")>>
    /\ pc[i] = "returned"
    /\ NoRunNoEvents(i)

\* str without the prefix, when it starts with it
StripPrefix(str, prefix) ==
    IF Len(str) >= Len(prefix) /\ SubSeq(str, 1, Len(prefix)) = prefix
    THEN SubSeq(str, Len(prefix) + 1, Len(str))
    ELSE str

\* the ref filter as the claim states it
RefAccepted(o, r) ==
    IF Opt(o, "branches") # <<>> /\ Opt(o, "branches")[1] = STAR THEN TRUE
    ELSE IF Opt(o, "onlyTags")
            /\ (r.body.ref = Undefined \/ StripPrefix(r.body.ref, REFS_TAGS) = r.body.ref)
         THEN FALSE
    ELSE IF r.body.base_ref = Undefined /\ r.body.ref = Undefined THEN FALSE
    ELSE LET from == IF r.body.base_ref # Undefined THEN r.body.base_ref ELSE r.body.ref
         IN  \E k \in 1..Len(Opt(o, "branches")) :
                Opt(o, "branches")[k] = trim(StripPrefix(from, REFS_HEADS))

\* C18: a request that reaches the ref filter passes it when branches[0] is "*";
\* otherwise it is rejected when onlyTags is set and ref does not start with
\* refs/tags/; otherwise it passes if and only if base_ref, or ref when there is
\* no base_ref, without the prefix refs/heads/ and trimmed, is one of branches.
\* A rejected request is answered 200 with an empty body.
C18_RefRelevance ==
    \A i \in Ids :
        Called(i, "shouldHandleRef") =>
            IF RefAccepted(options, req[i])
            THEN Called(i, "shouldHandlePusher")
            ELSE SoftRejected(i) /\ ~Called(i, "shouldHandlePusher")

\* the event filter as the claim states it
EventAccepted(o, r) ==
    /\ Opt(o, "events") # <<>>
    /\ \/ Opt(o, "events")[1] = STAR
       \/ \E k \in 1..Len(Opt(o, "events")) : Opt(o, "events")[k] = r.event

\* C19: a request that reaches the event filter passes it (the ref filter is
\* consulted next) if and only if events is not empty and events[0] is "*" or
\* the event header is a member of events; otherwise the request is answered
\* 200 with an empty body and no other filter is consulted.
C19_EventRelevance ==
    \A i \in Ids :
        Called(i, "shouldHandleEvent") =>
            IF EventAccepted(options, req[i])
            THEN Called(i, "shouldHandleRef")
            ELSE SoftRejected(i) /\ ~Called(i, "shouldHandleRef")

\* events is [push] and a create notification was answered 200 with an empty body
C19_Witness ==
    \E i \in Ids :
        /\ Opt(options, "events") = <<Str_push>>
        /\ Called(i, "shouldHandleEvent")
        /\ req[i].event = Str_create
        /\ SoftRejected(i)

\* the pusher filter as the claim states it: a pattern, a pusher with a name,
\* and the name matches
PusherIgnored(o, r) ==
    /\ Opt(o, "pusherIgnoreRegex") # Undefined
    /\ r.body.pusher.defined
    /\ r.body.pusher.name \notin {Undefined, <<>>}
    /\ RegExpTest(Opt(o, "pusherIgnoreRegex"), r.body.pusher.name)

\* C20: a request that reaches the pusher filter is rejected by it (answered
\* 200 with an empty body, nothing run) if and only if pusherIgnoreRegex is
\* configured, a pusher with a name is present and the name matches the pattern;
\* otherwise the commit filter is consulted next.
C20_PusherRelevance ==
    \A i \in Ids :
        Called(i, "shouldHandlePusher") =>
            IF PusherIgnored(options, req[i])
            THEN SoftRejected(i) /\ ~Called(i, "shouldHandleCommit")
            ELSE Called(i, "shouldHandleCommit")

\* with the default pattern, a notification pushed by "[bot] idk" was answered
\* 200 with an empty body
C20_Witness ==
    \E i \in Ids :
        /\ Opt(options, "pusherIgnoreRegex") = BOT_REGEX
        /\ Called(i, "shouldHandlePusher")
        /\ req[i].body.pusher.defined
        /\ req[i].body.pusher.name = Str_bot
        /\ SoftRejected(i)

\* the commit the claim has inspected: head_commit if present, otherwise the
\* first element of commits, if there is one
InspectedCommit(r) ==
    IF r.body.head_commit.defined THEN r.body.head_commit
    ELSE IF r.body.commits.defined /\ Len(r.body.commits.items) > 0 THEN Head(r.body.commits.items)
    ELSE NoCommit

\* the commit filter as the claim states it
CommitIgnored(o, r) ==
    /\ Opt(o, "commitIgnoreRegex") # Undefined
    /\ InspectedCommit(r).defined
    /\ InspectedCommit(r).message # Undefined
    /\ RegExpTest(Opt(o, "commitIgnoreRegex"), InspectedCommit(r).message)

\* C21: a request that reaches the commit filter is rejected by it (answered
\* 200 with an empty body, nothing run) if and only if commitIgnoreRegex is
\* configured and the inspected commit (head_commit if present, otherwise the
\* first of commits) exists and its message matches the pattern; otherwise the
\* token check is made next.
C21_CommitRelevance ==
    \A i \in Ids :
        Called(i, "shouldHandleCommit") =>
            IF CommitIgnored(options, req[i])
            THEN SoftRejected(i) /\ ~Called(i, "validateToken")
            ELSE Called(i, "validateToken")

\* with the default pattern, a notification without head_commit whose first
\* commit is "[nopull] x" was answered 200 with an empty body
C21_Witness ==
    \E i \in Ids :
        /\ Opt(options, "commitIgnoreRegex") = NOPULL_REGEX
        /\ Called(i, "shouldHandleCommit")
        /\ ~req[i].body.head_commit.defined
        /\ req[i].body.commits.defined
        /\ req[i].body.commits.items # <<>>
        /\ Head(req[i].body.commits.items).message = Str_nopull
        /\ SoftRejected(i)

----------------------------------------------------------------------------
(* C22 -- the merge of the configuration *)

\* effective has every key of defaults and of supplied, a supplied key with the
\* supplied value and any other default key with its default value
MergedMap(defaults, supplied, effective) ==
    /\ Keys(defaults) \cup Keys(supplied) \subseteq Keys(effective)
    /\ \A k \in 1..Len(supplied) : Get(effective, supplied[k].name) = supplied[k].value
    /\ \A k \in 1..Len(defaults) :
          defaults[k].name \notin Keys(supplied) => Get(effective, defaults[k].name) = defaults[k].value

MergedNames == {"vars", "commands", "delays"}

\* C22: for each of vars, commands and delays, the effective map of a Puller
\* constructed from an options argument has every key of the defaults and every
\* key of the argument's map; a key of the argument has the argument's value,
\* and a default key the argument does not supply has its default value.
C22_ConfigurationMerge ==
    \A u \in MergeOptions :
        options = Puller(u) =>
            \A name \in MergedNames :
                MergedMap(Get(DEFAULT_OPTIONS, name), SubMap(u, name), Opt(options, name))

\* the argument supplies only the category deploy, and the run of a request has
\* gone through the default category git and through deploy
C22_Witness ==
    \E u \in MergeOptions, i \in Ids :
        /\ options = Puller(u)
        /\ Keys(SubMap(u, "commands")) = {"deploy"}
        /\ Keys(SubMap(u, "delays")) = {"deploy"}
        /\ Opt(options, "commandOrder") = <<"git", "deploy", "post">>
        /\ Get(Opt(options, "commands"), "git") = <<Cmd_fetch, Cmd_pull>>
        /\ pc[i] = "resolved"

----------------------------------------------------------------------------
(* C23 -- one command at a time *)

\* the child processes of the run of request i that were started and have not exited
InFlight(i) == {p \in 1..Len(procs[i]) : procs[i][p] = "running"}

\* C23: within the run of one request at most one command is in flight at any
\* time: a command is started only after the command started before it in the
\* same run has finished.
C23_OneInFlight == \A i \in Ids : Cardinality(InFlight(i)) <= 1

----------------------------------------------------------------------------
(* C24 -- a notification without ref and base_ref *)

\* C24: a request that reaches the ref filter with neither ref nor base_ref in
\* its body, under a configuration whose branches[0] is not "*" (onlyTags set
\* or not), is rejected: the filter does not throw, the request is answered 200
\* with an empty body and nothing is run.
C24_NoRefRejected ==
    \A i \in Ids :
        ( /\ Called(i, "shouldHandleRef")
          /\ req[i].body.ref = Undefined
          /\ req[i].body.base_ref = Undefined
          /\ (Opt(options, "branches") = <<>> \/ Opt(options, "branches")[1] # STAR) )
        => /\ pc[i] # "threw"
           /\ SoftRejected(i)

----------------------------------------------------------------------------
(* C25 -- the precondition of the constant-time comparison *)

\* the calls of crypto.timingSafeEqual made for request i
Comparisons(i) == SelectSeq(log[i], LAMBDA e : e.op = "timingSafeEqual")

\* C25: crypto.timingSafeEqual is only called on two buffers of the same byte
\* length; a request whose signature differs in length from the computed digest
\* is rejected by the signature check (401 "invalid signature") without a call
\* of the comparator and without an exception.
C25_EqualLengthCompared ==
    \A i \in Ids :
        /\ \A k \in 1..Len(Comparisons(i)) : Comparisons(i)[k].n = Comparisons(i)[k].m
        /\ ( /\ Called(i, "validateSignature")
             /\ SecretConfigured(options)
             /\ req[i].signature # Undefined
             /\ Len(req[i].signature) # Len(ExpectedSignature(options, req[i])) )
           => /\ Comparisons(i) = <<>>
              /\ pc[i] = "returned"
              /\ Sends(i) = <<Send(401, "invalid signature")>>

\* a signature one character longer than the digest was rejected without a call
\* of the comparator
C25_Witness ==
    \E i \in Ids :
        /\ Called(i, "validateSignature")
        /\ SecretConfigured(options)
        /\ Len(req[i].signature) = Len(ExpectedSignature(options, req[i])) + 1
        /\ Comparisons(i) = <<>>
        /\ Sends(i) = <<Send(401, "invalid signature")>>

----------------------------------------------------------------------------
(* C26 -- no single flight *)

\* the run of request i is suspended at a delay or at a command
InProgress(i) == pc[i] \in {"delay", "command"}

\* request i is the next one the middleware is called with
NextToDeliver(i) == pc[i] = "idle" /\ \A j \in Ids : j < i => pc[j] # "idle"

\* C26: there is no single-flight guarantee: whatever the runs of the earlier
\* requests are doing, also when they are suspended at a delay or a command, the
\* next request can be handled, and an accepted request is always answered
\* 200 "running" and has its own run started.
C26_NoSingleFlight ==
    \A i \in Ids :
        /\ NextToDeliver(i) => ENABLED HandleRequest(i, AcceptedRequest)
        /\ (Delivered(i) /\ req[i] = AcceptedRequest)
              => Running(i) /\ Sends(i) = <<Send(200, "running")>>

\* two accepted requests each have a run in progress at the same time: the
\* first is at a command, the second at its delay
C26_Witness ==
    \E i, j \in Ids :
        /\ i < j
        /\ req[i] = AcceptedRequest /\ req[j] = AcceptedRequest
        /\ InProgress(i) /\ InProgress(j)
        /\ pc[i] = "command" /\ pc[j] = "delay"

----------------------------------------------------------------------------
(* C27 -- one response for every request *)

\* C27: every request the middleware was called with has received exactly one
\* response when handleRequest has returned, whichever check rejected it, the
\* precondition included.
C27_ExactlyOneResponse == \A i \in Ids : Delivered(i) => Len(Sends(i)) = 1

----------------------------------------------------------------------------
(* C28 -- after is the last notification *)

\* the positions of Emits(i) at which after is emitted
Afters(i) == {k \in 1..Len(Emits(i)) : Emits(i)[k][1] = "after"}

\* C28: for every accepted request after is emitted at most once and nothing is
\* emitted for the request after it, whatever the listeners do (return, throw,
\* or none registered).
C28_AfterOnceAndLast ==
    \A i \in Ids :
        Running(i) =>
            /\ Cardinality(Afters(i)) <= 1
            /\ \A k \in Afters(i) : k = Len(Emits(i))

====
